---- MODULE Spec2Model ----
(***************************************************************************)
(* Model of async_dns/server/__init__.py: the DNS handler mix-in, its UDP  *)
(* and TCP protocol classes, and start_server.                             *)
(*                                                                         *)
(* The event loop is single threaded: every action below is one callback   *)
(* or one run of a task between two suspension points.                     *)
(***************************************************************************)
EXTENDS Integers, Sequences, FiniteSets, TLC

VARIABLES
    spc,            \* position of the start_server coroutine
    loc,            \* start_server's arguments and local variables
    bootLog,        \* calls made on the cache / resolver, in order
    bound,          \* listeners opened on the event loop, in order
    transports,     \* transports created by the event loop
    handlers,       \* protocol instances (DNSDatagramProtocol, DNSProtocol)
    tasks,          \* handle() tasks spawned with asyncio.ensure_future
    objs,           \* Message objects handed out by the resolver
    queries,        \* calls of resolver.query, in order
    log             \* records given to logger.info, in order

vars == <<spc, loc, bootLog, bound, transports, handlers, tasks, objs, queries, log>>

----------------------------------------------------------------------------
(* Bounds of the model.                                                    *)

MaxTasks == 2
MaxConns == 1

(* Python's None, and a present value.                                     *)
None == <<>>
Some(x) == <<x>>

(* Peer addresses (ip, port) as the event loop reports them.               *)
Peers == {<<"10.0.0.1", 1111>>, <<"10.0.0.2", 2222>>}

----------------------------------------------------------------------------
(* The message codec (DNSMessage.parse / DNSMessage.pack) and              *)
(* types.get_name.  Wire data is a sequence of integers:                   *)
(*   <<qid, r, qdcount, ancount>> \o <<name, qtype>>* \o <<rr>>*           *)
(* with a name written as its index in Names.                              *)

Names == <<"a.com", "b.com">>
TypeA == 1
TypeAAAA == 28

NameIndex(name) == CHOOSE i \in 1..Len(Names) : Names[i] = name

get_name(qtype) ==
    IF qtype = TypeA THEN "A" ELSE IF qtype = TypeAAAA THEN "AAAA" ELSE "?"

pack(m) ==
    <<m.qid, m.r, Len(m.qd), Len(m.an)>>
    \o [i \in 1..(2 * Len(m.qd)) |->
            IF i % 2 = 1 THEN NameIndex(m.qd[(i + 1) \div 2].name)
                         ELSE m.qd[i \div 2].qtype]
    \o m.an

Decodable(data) ==
    /\ Len(data) >= 4
    /\ Len(data) = 4 + 2 * data[3] + data[4]
    /\ \A i \in 1..data[3] : data[3 + 2 * i] \in 1..Len(Names)

parse(data) ==
    [qid |-> data[1],
     r   |-> data[2],
     qd  |-> [i \in 1..data[3] |->
                [name |-> Names[data[3 + 2 * i]], qtype |-> data[4 + 2 * i]]],
     an  |-> SubSeq(data, 5 + 2 * data[3], Len(data))]

(* Requests the peers send.                                                *)
Q1 == [name |-> "a.com", qtype |-> TypeA]
Q2 == [name |-> "b.com", qtype |-> TypeAAAA]
Qids == {1, 2}
Request(qid, qd) == pack([qid |-> qid, r |-> 0, qd |-> qd, an |-> <<>>])
Malformed == <<1, 0, 1>>
Requests ==
    {Request(1, <<>>), Request(1, <<Q1>>), Request(2, <<Q1>>),
     Request(2, <<Q2, Q1>>), Malformed}

(* Messages the resolver can build: the question asked, a response code,   *)
(* an answer when the code is 0, and the resolver's own transaction id.    *)
Rcodes == {0, 3}
Answer(name, qtype, rc) ==
    [qid |-> 0, r |-> rc,
     qd  |-> <<[name |-> name, qtype |-> qtype]>>,
     an  |-> IF rc = 0 THEN <<7>> ELSE <<>>]

----------------------------------------------------------------------------
(* DNSMixIn and its two protocol classes.                                  *)

DNSMixIn(resolver_) ==
    [resolver |-> resolver_, transport |-> None, addr |-> None]

DNSDatagramProtocol(resolver_) ==
    [protocol |-> "udp"] @@ DNSMixIn(resolver_)

DNSProtocol(resolver_) ==
    [protocol |-> "tcp"] @@ DNSMixIn(resolver_)

(* As udp_connection_made, but the transport is kept on the class: every   *)
(* instance ends up with the transport of the first endpoint.              *)
udp_connection_made_shared(self, transport) ==
    [self EXCEPT !.transport = Some(1)]

udp_connection_made(self, transport) ==
    [self EXCEPT !.transport = Some(transport)]

tcp_connection_made(self, transport, peername) ==
    [self EXCEPT !.transport = Some(transport), !.addr = peername]

(* transport.sendto(data, addr) and transport.write(data): `task` records  *)
(* which handle task made the call.                                        *)
(* As udp_send_data, but addressed to the peer of the datagram received   *)
(* last (the address kept on the handler instead of the task).             *)
udp_send_data_last(trs, self, data, addr, task) ==
    [trs EXCEPT ![self.transport[1]].out =
        Append(@, [task |-> task, data |-> data,
                   addr |-> Some(tasks[Len(tasks)].addr)])]

udp_send_data(trs, self, data, addr, task) ==
    [trs EXCEPT ![self.transport[1]].out =
        Append(@, [task |-> task, data |-> data, addr |-> Some(addr)])]

(* As tcp_send_data, but written to the transport created first (one      *)
(* transport shared by all handlers).                                      *)
tcp_send_data_first(trs, self, data, addr, task) ==
    [trs EXCEPT ![1].out =
        Append(@, [task |-> task, data |-> data, addr |-> None])]

tcp_send_data(trs, self, data, addr, task) ==
    [trs EXCEPT ![self.transport[1]].out =
        Append(@, [task |-> task, data |-> data, addr |-> None])]

(* As send_data, but a reply is held back while an earlier query is still *)
(* waiting for the resolver (replies kept in arrival order).               *)
send_data_held(trs, self, data, addr, task) ==
    IF \E u \in 1..(task - 1) : tasks[u].pc = "awaiting"
    THEN trs
    ELSE IF self.protocol = "udp"
         THEN udp_send_data(trs, self, data, addr, task)
         ELSE tcp_send_data(trs, self, data, addr, task)

send_data(trs, self, data, addr, task) ==
    IF self.protocol = "udp"
    THEN udp_send_data(trs, self, data, addr, task)
    ELSE tcp_send_data(trs, self, data, addr, task)

(* The pieces of DNSMixIn.handle.                                          *)

(* Lines 38-40: the else branch leaves the transports alone.               *)
(* As NoReply, but an empty reply is sent.                                  *)
NoReply_empty(trs, self, addr, task) ==
    [trs EXCEPT ![self.transport[1]].out =
        Append(@, [task |-> task, data |-> <<>>, addr |-> Some(addr)])]

(* As NoReply, but the connection is closed when there is no result.       *)
NoReply_close(trs, self, addr, task) ==
    [trs EXCEPT ![self.transport[1]].closed = TRUE]

NoReply(trs, self, addr, task) == trs

Present(res) == res # None

(* As Stamp, but the result keeps the transaction id it came with.         *)
Stamp_keep(obj, msg) == obj

(* As Stamp, but a result that already carries the id of a request (a     *)
(* message handed out before) is left as it is.                            *)
Stamp_once(obj, msg) ==
    IF obj.qid = 0 THEN [obj EXCEPT !.qid = msg.qid] ELSE obj

Stamp(obj, msg) == [obj EXCEPT !.qid = msg.qid]

LenData(res, data) == IF Present(res) THEN Len(data) ELSE 0

(* As ResCode, but 0 is logged when there is no result.                    *)
ResCode_zero(res, obj) == IF Present(res) THEN obj.r ELSE 0

ResCode(res, obj) == IF Present(res) THEN obj.r ELSE -1

LogRecord(self, addr, question, res_code, len_data, task) ==
    [task |-> task, protocol |-> self.protocol, ip |-> addr[1],
     qtype |-> get_name(question.qtype), name |-> question.name,
     res_code |-> res_code, len_data |-> len_data]

(* Line 27: the question of the current pass of the loop.                  *)
(* As Question, but the last question of the message is taken.             *)
Question_last(msg, qi) == msg.qd[Len(msg.qd)]

Question(msg, qi) == msg.qd[qi]

(* Line 44.  As Break, but the loop goes on to the next question.          *)
Break_missing == FALSE

Break == TRUE

Call(task, question) ==
    [task |-> task, name |-> question.name, qtype |-> question.qtype]

NewTask(h, data, addr) ==
    [h |-> h, data |-> data, addr |-> addr, pc |-> "spawned",
     msg |-> None, qi |-> 0, rets |-> <<>>]

----------------------------------------------------------------------------
(* start_server.                                                           *)

Hosts ==
    {[isstr |-> TRUE, s |-> ""],
     [isstr |-> TRUE, s |-> "192.0.2.1"],
     [isstr |-> FALSE, l |-> <<>>],
     [isstr |-> FALSE, l |-> <<"192.0.2.1", "2001:db8::1">>]}
Ports == {53, 5353}
HostsFiles == {None, Some("hosts.txt")}
Proxies == {None, Some(<<>>), Some(<<"198.51.100.1">>)}

(* Calls of start_server: every combination of arguments, and the call    *)
(* with all arguments left at their defaults.                              *)
AllConfigs ==
    [host : Hosts, port : Ports, tcp_protocol : BOOLEAN,
     udp_protocol : BOOLEAN, hosts : HostsFiles, proxies : Proxies]
DefaultConfig ==
    [host |-> [isstr |-> TRUE, s |-> ""], port |-> 53,
     tcp_protocol |-> TRUE, udp_protocol |-> TRUE,
     hosts |-> None, proxies |-> None]

Truthy(host) == IF host.isstr THEN host.s # "" ELSE host.l # <<>>

(* As host_arr, but only the IPv4 wildcard is bound when no host is given. *)
host_arr_v4only(host) ==
    IF Truthy(host)
    THEN (IF host.isstr THEN <<host.s>> ELSE host.l)
    ELSE <<"0.0.0.0">>

host_arr(host) ==
    IF Truthy(host)
    THEN (IF host.isstr THEN <<host.s>> ELSE host.l)
    ELSE <<"0.0.0.0", "::">>

NoLocals ==
    [host |-> [isstr |-> TRUE, s |-> ""], port |-> 53,
     tcp_protocol |-> FALSE, udp_protocol |-> FALSE,
     hosts |-> None, proxies |-> None,
     server |-> None, transport_arr |-> <<>>, host_arr |-> <<>>, i |-> 0,
     ret |-> None]

(* Lines 83-89: the calls made on the cache and the resolver, in order.    *)
(* As Bootstrap, but set_proxies is called for any list that is given,     *)
(* also an empty one.                                                      *)
Bootstrap_anylist(hosts, proxies) ==
    <<"DNSMemCache", "add_root_servers", "ProxyResolver">>
    \o (IF hosts # None THEN <<"parse_file">> ELSE <<>>)
    \o (IF proxies # None THEN <<"set_proxies">> ELSE <<>>)

Bootstrap(hosts, proxies) ==
    <<"DNSMemCache", "add_root_servers", "ProxyResolver">>
    \o (IF hosts # None THEN <<"parse_file">> ELSE <<>>)
    \o (IF proxies # None /\ proxies[1] # <<>>
        THEN <<"set_proxies">> ELSE <<>>)

(* Lines 96-102 and 107: what follows the TCP part, up to the next await   *)
(* or the return.                                                          *)
AfterServer(l) ==
    LET l1 == [l EXCEPT !.transport_arr = <<>>] IN
    IF l.udp_protocol
    THEN <<"create_endpoint",
           [l1 EXCEPT !.host_arr = host_arr(l.host), !.i = 1]>>
    ELSE <<"returned", [l1 EXCEPT !.ret = Some(<<l1.server, <<>>>>)]>>

Init ==
    /\ spc = "idle"
    /\ loc = NoLocals
    /\ bootLog = <<>>
    /\ bound = <<>>
    /\ transports = <<>>
    /\ handlers = <<>>
    /\ tasks = <<>>
    /\ objs = <<>>
    /\ queries = <<>>
    /\ log = <<>>

(* Lines 80-91 (and, without a TCP class, 95-102).                         *)
start_server(host, port, tcp_protocol, udp_protocol, hosts, proxies) ==
    /\ spc = "idle"
    /\ bootLog' = Bootstrap(hosts, proxies)
    /\ LET l == [NoLocals EXCEPT !.host = host, !.port = port,
                                 !.hosts = hosts, !.proxies = proxies,
                                 !.tcp_protocol = tcp_protocol,
                                 !.udp_protocol = udp_protocol]
       IN IF tcp_protocol
          THEN spc' = "create_server" /\ loc' = l
          ELSE spc' = AfterServer(l)[1] /\ loc' = AfterServer(l)[2]
    /\ UNCHANGED <<bound, transports, handlers, tasks, objs, queries, log>>

(* Line 92: loop.create_server completes.                                  *)
CreateServerOk ==
    /\ spc = "create_server"
    /\ bound' = Append(bound, [kind |-> "tcp", host |-> loc.host,
                               port |-> loc.port])
    /\ LET l == [loc EXCEPT !.server = Some(Len(bound) + 1)]
       IN spc' = AfterServer(l)[1] /\ loc' = AfterServer(l)[2]
    /\ UNCHANGED <<bootLog, transports, handlers, tasks, objs, queries, log>>

(* Line 92: loop.create_server raises (address in use, ...).               *)
CreateServerFail ==
    /\ spc = "create_server"
    /\ spc' = "raised"
    /\ UNCHANGED <<loc, bootLog, bound, transports, handlers, tasks, objs,
                   queries, log>>

(* Lines 103-106, and 107 after the last address.                          *)
CreateEndpointOk ==
    /\ spc = "create_endpoint"
    /\ LET host_bind == loc.host_arr[loc.i]
           transport == Len(transports) + 1
           l == [loc EXCEPT !.transport_arr = Append(@, transport)]
       IN /\ bound' = Append(bound, [kind |-> "udp",
                                     local_addr |-> <<host_bind, loc.port>>])
          /\ transports' = Append(transports,
                [kind |-> "udp", listener |-> Len(bound) + 1,
                 protocol |-> Len(handlers) + 1,
                 peername |-> None, closed |-> FALSE, out |-> <<>>])
          /\ handlers' = Append(handlers,
                udp_connection_made(DNSDatagramProtocol("proxy_resolver"),
                                    transport))
          /\ IF loc.i < Len(loc.host_arr)
             THEN spc' = "create_endpoint" /\ loc' = [l EXCEPT !.i = @ + 1]
             ELSE /\ spc' = "returned"
                  /\ loc' = [l EXCEPT
                                !.ret = Some(<<l.server, l.transport_arr>>)]
    /\ UNCHANGED <<bootLog, tasks, objs, queries, log>>

(* As CreateEndpointFail, but the listeners started so far are closed      *)
(* before the exception leaves start_server.                               *)
CreateEndpointFail_cleanup ==
    /\ spc = "create_endpoint"
    /\ spc' = "raised"
    /\ bound' = <<>>
    /\ transports' = [tr \in 1..Len(transports) |->
                        [transports[tr] EXCEPT !.closed = TRUE]]
    /\ UNCHANGED <<loc, bootLog, handlers, tasks, objs, queries, log>>

(* Line 103: loop.create_datagram_endpoint raises.                         *)
CreateEndpointFail ==
    /\ spc = "create_endpoint"
    /\ spc' = "raised"
    /\ UNCHANGED <<loc, bootLog, bound, transports, handlers, tasks, objs,
                   queries, log>>

----------------------------------------------------------------------------
(* Events of the event loop.                                               *)

TcpConns == {h \in 1..Len(handlers) : handlers[h].protocol = "tcp"}

(* A client connects to the TCP server: the factory of line 93 builds a    *)
(* DNSProtocol and the loop calls its connection_made.                     *)
Accept(peer) ==
    /\ \E b \in 1..Len(bound) : bound[b].kind = "tcp"
    /\ Cardinality(TcpConns) < MaxConns
    /\ LET transport == Len(transports) + 1
           listener == CHOOSE b \in 1..Len(bound) : bound[b].kind = "tcp"
       IN /\ transports' = Append(transports,
                [kind |-> "tcp", listener |-> listener,
                 protocol |-> Len(handlers) + 1,
                 peername |-> Some(peer), closed |-> FALSE, out |-> <<>>])
          /\ handlers' = Append(handlers,
                tcp_connection_made(DNSProtocol("proxy_resolver"),
                                    transport, Some(peer)))
    /\ UNCHANGED <<spc, loc, bootLog, bound, tasks, objs, queries, log>>

(* As datagram_received, but a datagram is taken only when no earlier      *)
(* query of the handler is still in flight (a callback that waits for the  *)
(* task it starts).                                                        *)
datagram_received_blocking(h, data, addr) ==
    /\ handlers[h].protocol = "udp"
    /\ \A t \in 1..Len(tasks) :
          tasks[t].h = h => tasks[t].pc \in {"done", "failed"}
    /\ Len(tasks) < MaxTasks
    /\ tasks' = Append(tasks, NewTask(h, data, addr))
    /\ UNCHANGED <<spc, loc, bootLog, bound, transports, handlers, objs,
                   queries, log>>

(* As datagram_received, but the queries of the handler that still wait    *)
(* for the resolver are cancelled when a new datagram comes in.            *)
datagram_received_cancel(h, data, addr) ==
    /\ handlers[h].protocol = "udp"
    /\ Len(tasks) < MaxTasks
    /\ tasks' = Append([t \in 1..Len(tasks) |->
                          IF tasks[t].h = h /\ tasks[t].pc = "awaiting"
                          THEN [tasks[t] EXCEPT !.pc = "cancelled"]
                          ELSE tasks[t]],
                       NewTask(h, data, addr))
    /\ UNCHANGED <<spc, loc, bootLog, bound, transports, handlers, objs,
                   queries, log>>

datagram_received(h, data, addr) ==
    /\ handlers[h].protocol = "udp"
    /\ Len(tasks) < MaxTasks
    /\ tasks' = Append(tasks, NewTask(h, data, addr))
    /\ UNCHANGED <<spc, loc, bootLog, bound, transports, handlers, objs,
                   queries, log>>

data_received(h, data) ==
    /\ handlers[h].protocol = "tcp"
    /\ ~transports[handlers[h].transport[1]].closed
    /\ Len(tasks) < MaxTasks
    /\ tasks' = Append(tasks, NewTask(h, data, handlers[h].addr[1]))
    /\ UNCHANGED <<spc, loc, bootLog, bound, transports, handlers, objs,
                   queries, log>>

----------------------------------------------------------------------------
(* DNSMixIn.handle, one action per run between suspension points.          *)

(* As HandleStart, but a decode failure is caught and logged as a query    *)
(* without result.                                                         *)
HandleStart_caught(t) ==
    /\ tasks[t].pc = "spawned"
    /\ IF ~Decodable(tasks[t].data)
       THEN /\ tasks' = [tasks EXCEPT ![t].pc = "failed"]
            /\ log' = Append(log,
                   [task |-> t,
                    protocol |-> handlers[tasks[t].h].protocol,
                    ip |-> tasks[t].addr[1], qtype |-> "", name |-> "",
                    res_code |-> -1, len_data |-> 0])
            /\ UNCHANGED queries
       ELSE LET msg == parse(tasks[t].data) IN
            IF msg.qd = <<>>
            THEN /\ tasks' = [tasks EXCEPT ![t].pc = "done",
                                           ![t].msg = Some(msg)]
                 /\ UNCHANGED <<queries, log>>
            ELSE /\ tasks' = [tasks EXCEPT ![t].pc = "awaiting",
                                           ![t].msg = Some(msg),
                                           ![t].qi = 1]
                 /\ queries' = Append(queries, Call(t, Question(msg, 1)))
                 /\ UNCHANGED log
    /\ UNCHANGED <<spc, loc, bootLog, bound, transports, handlers, objs>>

(* As HandleStart, but the log record is written after the loop, also     *)
(* when the loop had nothing to iterate.                                   *)
HandleStart_logs(t) ==
    /\ tasks[t].pc = "spawned"
    /\ IF ~Decodable(tasks[t].data)
       THEN /\ tasks' = [tasks EXCEPT ![t].pc = "failed"]
            /\ UNCHANGED <<queries, log>>
       ELSE LET msg == parse(tasks[t].data) IN
            IF msg.qd = <<>>
            THEN /\ tasks' = [tasks EXCEPT ![t].pc = "done",
                                           ![t].msg = Some(msg)]
                 /\ log' = Append(log,
                        [task |-> t,
                         protocol |-> handlers[tasks[t].h].protocol,
                         ip |-> tasks[t].addr[1], qtype |-> "", name |-> "",
                         res_code |-> -1, len_data |-> 0])
                 /\ UNCHANGED queries
            ELSE /\ tasks' = [tasks EXCEPT ![t].pc = "awaiting",
                                           ![t].msg = Some(msg),
                                           ![t].qi = 1]
                 /\ queries' = Append(queries, Call(t, Question(msg, 1)))
                 /\ UNCHANGED log
    /\ UNCHANGED <<spc, loc, bootLog, bound, transports, handlers, objs>>

(* Lines 26-28: decode, enter the loop and call the resolver.              *)
HandleStart(t) ==
    /\ tasks[t].pc = "spawned"
    /\ IF ~Decodable(tasks[t].data)
       THEN /\ tasks' = [tasks EXCEPT ![t].pc = "failed"]
            /\ UNCHANGED queries
       ELSE LET msg == parse(tasks[t].data) IN
            IF msg.qd = <<>>
            THEN /\ tasks' = [tasks EXCEPT ![t].pc = "done",
                                           ![t].msg = Some(msg)]
                 /\ UNCHANGED queries
            ELSE /\ tasks' = [tasks EXCEPT ![t].pc = "awaiting",
                                           ![t].msg = Some(msg),
                                           ![t].qi = 1]
                 /\ queries' = Append(queries, Call(t, Question(msg, 1)))
    /\ UNCHANGED <<spc, loc, bootLog, bound, transports, handlers, objs, log>>

(* As Resume, but the task is suspended once more after the reply is      *)
(* sent: the log record is not written in the run that sends.              *)
Resume_split(t, res, objs1) ==
    LET self == handlers[tasks[t].h]
        addr == tasks[t].addr
        msg == tasks[t].msg[1]
        obj == IF Present(res) THEN Stamp(objs1[res[1]], msg) ELSE None
        data == IF Present(res) THEN pack(obj) ELSE None
    IN /\ objs' = IF Present(res) THEN [objs1 EXCEPT ![res[1]] = obj]
                                  ELSE objs1
       /\ transports' = IF Present(res)
                        THEN send_data(transports, self, data, addr, t)
                        ELSE NoReply(transports, self, addr, t)
       /\ tasks' = [tasks EXCEPT ![t].pc = "sent",
                                 ![t].rets = Append(@, res)]
       /\ UNCHANGED <<spc, loc, bootLog, bound, handlers, queries, log>>

(* Lines 28-44: resolver.query returns res (None or a reference into       *)
(* objs1, the resolver's messages at that moment) and handle runs on.      *)
Resume(t, res, objs1) ==
    LET self == handlers[tasks[t].h]
        addr == tasks[t].addr
        msg == tasks[t].msg[1]
        question == Question(msg, tasks[t].qi)
        obj == IF Present(res) THEN Stamp(objs1[res[1]], msg) ELSE None
        data == IF Present(res) THEN pack(obj) ELSE None
    IN /\ objs' = IF Present(res) THEN [objs1 EXCEPT ![res[1]] = obj]
                                  ELSE objs1
       /\ transports' = IF Present(res)
                        THEN send_data(transports, self, data, addr, t)
                        ELSE NoReply(transports, self, addr, t)
       /\ log' = Append(log, LogRecord(self, addr, question,
                                       ResCode(res, obj),
                                       LenData(res, data), t))
       /\ IF Break \/ tasks[t].qi = Len(msg.qd)
          THEN /\ tasks' = [tasks EXCEPT ![t].pc = "done",
                                         ![t].rets = Append(@, res)]
               /\ UNCHANGED queries
          ELSE /\ tasks' = [tasks EXCEPT ![t].qi = @ + 1,
                                         ![t].rets = Append(@, res)]
               /\ queries' = Append(queries,
                                    Call(t, Question(msg, tasks[t].qi + 1)))
       /\ UNCHANGED <<spc, loc, bootLog, bound, handlers>>

QueryReturnsNone(t) ==
    /\ tasks[t].pc = "awaiting"
    /\ Resume(t, None, objs)

QueryReturnsNew(t, rc) ==
    /\ tasks[t].pc = "awaiting"
    /\ LET q == queries[CHOOSE c \in 1..Len(queries) :
                    /\ queries[c].task = t
                    /\ \A d \in 1..Len(queries) :
                          queries[d].task = t => d <= c]
       IN Resume(t, Some(Len(objs) + 1),
                 Append(objs, Answer(q.name, q.qtype, rc)))

(* The resolver hands out a message it handed out before (a cached one).   *)
QueryReturnsSame(t, o) ==
    /\ tasks[t].pc = "awaiting"
    /\ Resume(t, Some(o), objs)

(* As QueryRaises, but the exception is caught, logged as a query without  *)
(* result and raised again.                                                *)
QueryRaises_logged(t) ==
    /\ tasks[t].pc = "awaiting"
    /\ tasks' = [tasks EXCEPT ![t].pc = "failed"]
    /\ log' = Append(log,
           LogRecord(handlers[tasks[t].h], tasks[t].addr,
                     Question(tasks[t].msg[1], tasks[t].qi), -1, 0, t))
    /\ UNCHANGED <<spc, loc, bootLog, bound, transports, handlers, objs,
                   queries>>

(* resolver.query raises: the exception leaves handle.                     *)
QueryRaises(t) ==
    /\ tasks[t].pc = "awaiting"
    /\ tasks' = [tasks EXCEPT ![t].pc = "failed"]
    /\ UNCHANGED <<spc, loc, bootLog, bound, transports, handlers, objs,
                   queries, log>>

----------------------------------------------------------------------------
(* The steps of the program, for given sets of start_server calls, of      *)
(* received data and of peers.                                             *)
NextOver(configs, requests, peers) ==
    \/ \E c \in configs :
            start_server(c.host, c.port, c.tcp_protocol, c.udp_protocol,
                         c.hosts, c.proxies)
    \/ CreateServerOk
    \/ CreateServerFail
    \/ CreateEndpointOk
    \/ CreateEndpointFail
    \/ \E peer \in peers : Accept(peer)
    \/ \E h \in 1..Len(handlers), data \in requests, addr \in peers :
            datagram_received(h, data, addr)
    \/ \E h \in 1..Len(handlers), data \in requests : data_received(h, data)
    \/ \E t \in 1..Len(tasks) : HandleStart(t)
    \/ \E t \in 1..Len(tasks) : QueryReturnsNone(t)
    \/ \E t \in 1..Len(tasks), rc \in Rcodes : QueryReturnsNew(t, rc)
    \/ \E t \in 1..Len(tasks), o \in 1..Len(objs) : QueryReturnsSame(t, o)
    \/ \E t \in 1..Len(tasks) : QueryRaises(t)

(* The server started with its defaults, serving any of the requests.     *)
Next == NextOver({DefaultConfig}, Requests, Peers)
Spec == Init /\ [][Next]_vars

(* Any call of start_server, with one peer sending one kind of request.    *)
NextBoot ==
    NextOver(AllConfigs, {Request(1, <<Q1>>)}, {<<"10.0.0.1", 1111>>})
SpecBoot == Init /\ [][NextBoot]_vars

(* The server started with its defaults and one peer, under the            *)
(* scheduling of the event loop: a task handed to ensure_future is run     *)
(* (lines 55, 70), and a call of the resolver completes, by returning or   *)
(* by raising.                                                             *)
Completes(t) ==
    \/ QueryReturnsNone(t)
    \/ \E rc \in Rcodes : QueryReturnsNew(t, rc)
    \/ \E o \in 1..Len(objs) : QueryReturnsSame(t, o)
    \/ QueryRaises(t)
NextLive ==
    NextOver({DefaultConfig},
             {Request(1, <<>>), Request(1, <<Q1>>), Request(2, <<Q2, Q1>>),
              Malformed},
             {<<"10.0.0.1", 1111>>})
SpecLive ==
    /\ Init /\ [][NextLive]_vars
    /\ \A t \in 1..MaxTasks :
          /\ WF_vars(t \in 1..Len(tasks) /\ HandleStart(t))
          /\ WF_vars(t \in 1..Len(tasks) /\ Completes(t))

----------------------------------------------------------------------------
(* What the properties speak about.                                        *)

TaskIds == 1..Len(tasks)

(* The sends made so far, as (transport, position) pairs.                  *)
AllSends ==
    UNION {{<<tr, i>> : i \in 1..Len(transports[tr].out)} :
                tr \in 1..Len(transports)}
SendAt(s) == transports[s[1]].out[s[2]]
SendsOf(t) == {s \in AllSends : SendAt(s).task = t}
LogsOf(t) == {i \in 1..Len(log) : log[i].task = t}
QueriesOf(t) == {i \in 1..Len(queries) : queries[i].task = t}
PresentRets(t) == {i \in 1..Len(tasks[t].rets) : tasks[t].rets[i] # None}
AbsentRets(t) == {i \in 1..Len(tasks[t].rets) : tasks[t].rets[i] = None}

(* t1 called the resolver before t2 did, and t2 was answered while t1 was  *)
(* still waiting.                                                          *)
Overtaken(t1, t2) ==
    /\ \E i, j \in 1..Len(queries) :
          i < j /\ queries[i].task = t1 /\ queries[j].task = t2
    /\ \E k, l \in 1..Len(log) :
          k < l /\ log[k].task = t2 /\ log[l].task = t1

----------------------------------------------------------------------------
(* C1: whenever the data of a task decodes to a message with at least one  *)
(* question and the resolver returned a message, the task has sent a       *)
(* reply, and every reply it sent decodes to the transaction id of the     *)
(* request the task was spawned with.                                      *)
C1_ReplyCarriesRequestId ==
    \A t \in TaskIds :
        (/\ Decodable(tasks[t].data)
         /\ parse(tasks[t].data).qd # <<>>
         /\ PresentRets(t) # {})
        => /\ SendsOf(t) # {}
           /\ \A s \in SendsOf(t) :
                 /\ Decodable(SendAt(s).data)
                 /\ parse(SendAt(s).data).qid = parse(tasks[t].data).qid

(* Two queries with distinct ids were in flight together and both were     *)
(* answered.                                                               *)
C1_Witness ==
    \E t1, t2 \in TaskIds :
        /\ Overtaken(t1, t2)
        /\ SendsOf(t1) # {} /\ SendsOf(t2) # {}
        /\ parse(tasks[t1].data).qid # parse(tasks[t2].data).qid

(* C2: a task that has sent on a transport has called the resolver and     *)
(* got a message back, it has sent no more replies than it got messages,   *)
(* and a task that got only absent results has sent nothing.               *)
C2_NoReplyWithoutResult ==
    /\ \A s \in AllSends : SendAt(s).task \in TaskIds
    /\ \A t \in TaskIds :
          /\ SendsOf(t) # {} => QueriesOf(t) # {} /\ PresentRets(t) # {}
          /\ Cardinality(SendsOf(t)) <= Cardinality(PresentRets(t))
          /\ PresentRets(t) = {} => SendsOf(t) = {}

(* One task got no result and sent nothing, on a transport another task    *)
(* has replied on.                                                         *)
C2_Witness ==
    \E t1, t2 \in TaskIds :
        /\ tasks[t1].h = tasks[t2].h
        /\ tasks[t1].pc = "done" /\ AbsentRets(t1) # {} /\ SendsOf(t1) = {}
        /\ SendsOf(t2) # {}

(* C3: every datagram sent on a UDP transport answers a request received   *)
(* by the handler of that transport, is addressed to the peer that         *)
(* request came from and carries that request's transaction id; and a      *)
(* peer is sent as many datagrams with a given id as it has answered       *)
(* requests with that id.                                                  *)
UdpSendsTo(tr, peer, qid) ==
    {i \in 1..Len(transports[tr].out) :
        /\ transports[tr].out[i].addr = Some(peer)
        /\ Decodable(transports[tr].out[i].data)
        /\ parse(transports[tr].out[i].data).qid = qid}
UdpAnswered(tr, peer, qid) ==
    {t \in TaskIds :
        /\ handlers[tasks[t].h].transport = Some(tr)
        /\ tasks[t].addr = peer
        /\ PresentRets(t) # {}
        /\ parse(tasks[t].data).qid = qid}
C3_UdpReplyToOwnPeer ==
    \A tr \in 1..Len(transports) :
        transports[tr].kind = "udp" =>
            /\ \A i \in 1..Len(transports[tr].out) :
                  LET s == transports[tr].out[i] IN
                  /\ handlers[tasks[s.task].h].transport = Some(tr)
                  /\ s.addr = Some(tasks[s.task].addr)
                  /\ Decodable(s.data)
                  /\ parse(s.data).qid = parse(tasks[s.task].data).qid
            /\ \A peer \in Peers, qid \in Qids :
                  Cardinality(UdpSendsTo(tr, peer, qid))
                    = Cardinality(UdpAnswered(tr, peer, qid))

(* Two peers had requests in flight on one UDP handler, the later one was  *)
(* answered first, and both were answered.                                 *)
C3_Witness ==
    \E t1, t2 \in TaskIds :
        /\ tasks[t1].h = tasks[t2].h
        /\ handlers[tasks[t1].h].protocol = "udp"
        /\ tasks[t1].addr # tasks[t2].addr
        /\ Overtaken(t1, t2)
        /\ parse(tasks[t1].data).qid # parse(tasks[t2].data).qid
        /\ Cardinality(SendsOf(t1)) = 1 /\ Cardinality(SendsOf(t2)) = 1

(* C4: a query the resolver answered with absent has exactly one log       *)
(* record, with response code -1 and length 0; a query answered with a     *)
(* message has exactly one log record and one reply, and the record shows  *)
(* the response code of the message and the length of the reply.           *)
C4_LogRecord ==
    \A t \in TaskIds :
        tasks[t].rets # <<>> =>
            /\ Cardinality(LogsOf(t)) = 1
            /\ \A i \in LogsOf(t) :
                  IF tasks[t].rets[1] = None
                  THEN log[i].res_code = -1 /\ log[i].len_data = 0
                  ELSE /\ Cardinality(SendsOf(t)) = 1
                       /\ log[i].res_code = objs[tasks[t].rets[1][1]].r
                       /\ \A s \in SendsOf(t) :
                             /\ log[i].res_code = parse(SendAt(s).data).r
                             /\ log[i].len_data = Len(SendAt(s).data)

(* One query was logged with -1 and 0, another with response code 3 and    *)
(* the length of its reply.                                                *)
C4_Witness ==
    \E i, j \in 1..Len(log) :
        /\ tasks[log[i].task].rets = <<None>>
        /\ log[i].res_code = -1 /\ log[i].len_data = 0
        /\ log[j].res_code = 3 /\ log[j].len_data > 0

(* C5: a task whose data decodes to a message without questions never      *)
(* calls the resolver, never sends and never logs; it is either not yet    *)
(* started or done.                                                        *)
C5_NoQuestionNoEffect ==
    \A t \in TaskIds :
        (Decodable(tasks[t].data) /\ parse(tasks[t].data).qd = <<>>)
        => /\ QueriesOf(t) = {}
           /\ tasks[t].rets = <<>>
           /\ SendsOf(t) = {}
           /\ LogsOf(t) = {}
           /\ tasks[t].pc \in {"spawned", "done"}

(* A query without questions has returned, next to a query on the same     *)
(* handler that was answered and logged.                                   *)
C5_Witness ==
    \E t1, t2 \in TaskIds :
        /\ tasks[t1].h = tasks[t2].h
        /\ tasks[t1].pc = "done" /\ tasks[t1].msg # None
        /\ tasks[t1].msg[1].qd = <<>>
        /\ SendsOf(t2) # {} /\ LogsOf(t2) # {}

(* C6: the resolver is called at most once for each received message, it   *)
(* returns to the task at most once, and the call carries the name and     *)
(* type of the first question of that message.                             *)
C6_OnlyFirstQuestion ==
    /\ \A i \in 1..Len(queries) : queries[i].task \in TaskIds
    /\ \A t \in TaskIds :
          /\ Cardinality(QueriesOf(t)) <= 1
          /\ Len(tasks[t].rets) <= 1
          /\ \A i \in QueriesOf(t) :
                /\ queries[i].name = parse(tasks[t].data).qd[1].name
                /\ queries[i].qtype = parse(tasks[t].data).qd[1].qtype

(* Two queries with two questions each are done, one answered with a       *)
(* message and one with absent.                                            *)
C6_Witness ==
    \E t1, t2 \in TaskIds :
        /\ tasks[t1].pc = "done" /\ tasks[t2].pc = "done"
        /\ tasks[t1].msg # None /\ Len(tasks[t1].msg[1].qd) >= 2
        /\ tasks[t2].msg # None /\ Len(tasks[t2].msg[1].qd) >= 2
        /\ tasks[t1].rets = <<None>>
        /\ PresentRets(t2) # {}

(* C7, as stated: a handle task that has ended has sent at most one reply  *)
(* and has written exactly one log record.                                 *)
C7_ExactlyOneLogRecord ==
    \A t \in TaskIds :
        tasks[t].pc \in {"done", "failed"} =>
            /\ Cardinality(SendsOf(t)) <= 1
            /\ Cardinality(LogsOf(t)) = 1

(* C7, amended: a handle task sends at most one reply and writes at most   *)
(* one log record; once it has ended it has written exactly one record if  *)
(* its data decoded to a message with a question and the resolver          *)
(* returned, and none if the message had no question, the data did not     *)
(* decode or the resolver raised.                                          *)
C7_AtMostOneLogRecord ==
    \A t \in TaskIds :
        /\ Cardinality(SendsOf(t)) <= 1
        /\ Cardinality(LogsOf(t)) <= 1
        /\ tasks[t].pc \in {"done", "failed"} =>
              IF /\ Decodable(tasks[t].data)
                 /\ parse(tasks[t].data).qd # <<>>
                 /\ tasks[t].pc = "done"
              THEN Cardinality(LogsOf(t)) = 1
              ELSE Cardinality(LogsOf(t)) = 0 /\ SendsOf(t) = {}

(* One task ended with a reply and a log record, another ended after the   *)
(* resolver raised, with neither.                                          *)
C7_Witness ==
    \E t1, t2 \in TaskIds :
        /\ tasks[t1].pc = "done"
        /\ Cardinality(SendsOf(t1)) = 1 /\ Cardinality(LogsOf(t1)) = 1
        /\ tasks[t2].pc = "failed" /\ QueriesOf(t2) # {}
        /\ LogsOf(t2) = {}

(* C8: a task spawned on a TCP connection has the peer address of that     *)
(* connection, which is the address its handler holds; its replies are     *)
(* written to the transport of that connection and to no address, and its  *)
(* log records show the peer's ip.                                         *)
C8_TcpPeerOfConnection ==
    \A t \in TaskIds :
        handlers[tasks[t].h].protocol = "tcp" =>
            \E tr \in 1..Len(transports) :
                /\ transports[tr].protocol = tasks[t].h
                /\ transports[tr].kind = "tcp"
                /\ handlers[tasks[t].h].addr = transports[tr].peername
                /\ Some(tasks[t].addr) = transports[tr].peername
                /\ \A s \in SendsOf(t) : s[1] = tr /\ SendAt(s).addr = None
                /\ \A i \in LogsOf(t) : log[i].ip = transports[tr].peername[1][1]

(* Two chunks were read on one connection, accepted after a UDP endpoint   *)
(* was opened, and both were answered on it.                               *)
C8_Witness ==
    \E t1, t2 \in TaskIds :
        /\ t1 # t2
        /\ tasks[t1].h = tasks[t2].h
        /\ handlers[tasks[t1].h].protocol = "tcp"
        /\ handlers[tasks[t1].h].transport # Some(1)
        /\ SendsOf(t1) # {} /\ SendsOf(t2) # {}

(* C9: no transport is ever closed by a handle task, so a TCP connection   *)
(* stays open for further reads in every outcome, and a query on it that   *)
(* the resolver answered with absent has written nothing to it.            *)
C9_TcpStaysOpen ==
    \A tr \in 1..Len(transports) :
        /\ ~transports[tr].closed
        /\ \A t \in TaskIds :
              (/\ transports[tr].protocol = tasks[t].h
               /\ tasks[t].rets # <<>>
               /\ PresentRets(t) = {})
              => \A i \in 1..Len(transports[tr].out) :
                    transports[tr].out[i].task # t

(* A query on a TCP connection got no result and was logged, and a chunk   *)
(* read on the same connection was handled and answered.                   *)
C9_Witness ==
    \E t1, t2 \in TaskIds :
        /\ t1 < t2
        /\ tasks[t1].h = tasks[t2].h
        /\ handlers[tasks[t1].h].protocol = "tcp"
        /\ tasks[t1].pc = "done" /\ tasks[t1].rets = <<None>>
        /\ \E i \in LogsOf(t1) : log[i].res_code = -1 /\ log[i].protocol = "tcp"
        /\ tasks[t2].pc = "done" /\ Cardinality(SendsOf(t2)) = 1

(* C10: when start_server has returned, one TCP listener on (host, port)   *)
(* exists if a TCP class was given and none otherwise; the UDP endpoints   *)
(* are, in order, one per address of the host list (the given string, the  *)
(* given list, or 0.0.0.0 and :: when no host is given), each on           *)
(* (address, port), if a UDP class was given and none otherwise; and the   *)
(* value returned is the server handle or None, with the list of the       *)
(* transports of exactly those endpoints.                                  *)
TcpBound == SelectSeq(bound, LAMBDA b : b.kind = "tcp")
UdpBound == SelectSeq(bound, LAMBDA b : b.kind = "udp")
HostList(host) ==
    IF host.isstr
    THEN (IF host.s = "" THEN <<"0.0.0.0", "::">> ELSE <<host.s>>)
    ELSE (IF Len(host.l) = 0 THEN <<"0.0.0.0", "::">> ELSE host.l)
C10_ListenersStarted ==
    spc = "returned" =>
        /\ Len(TcpBound) = (IF loc.tcp_protocol THEN 1 ELSE 0)
        /\ \A i \in 1..Len(TcpBound) :
              TcpBound[i].host = loc.host /\ TcpBound[i].port = loc.port
        /\ Len(UdpBound) =
              (IF loc.udp_protocol THEN Len(HostList(loc.host)) ELSE 0)
        /\ \A i \in 1..Len(UdpBound) :
              UdpBound[i].local_addr = <<HostList(loc.host)[i], loc.port>>
        /\ loc.ret # None
        /\ LET server == loc.ret[1][1]
               transport_arr == loc.ret[1][2]
           IN /\ (server = None) = ~loc.tcp_protocol
              /\ server # None => bound[server[1]].kind = "tcp"
              /\ Len(transport_arr) = Len(UdpBound)
              /\ \A i \in 1..Len(transport_arr) :
                    /\ transport_arr[i] \in 1..Len(transports)
                    /\ transports[transport_arr[i]].kind = "udp"
                    /\ bound[transports[transport_arr[i]].listener]
                          = UdpBound[i]

(* start_server has returned a server and two transports for a list of     *)
(* two hosts on port 5353.                                                 *)
C10_Witness ==
    /\ spc = "returned"
    /\ loc.ret # None
    /\ loc.ret[1][1] # None
    /\ Len(loc.ret[1][2]) = 2
    /\ ~loc.host.isstr /\ Len(loc.host.l) = 2
    /\ loc.port = 5353


(* C11: handle is suspended only while it waits for the resolver.  A task  *)
(* is spawned, waiting for the resolver, done or failed; while it waits    *)
(* it has one call the resolver has not returned from, and when it is      *)
(* done it has none; in the                                                *)
(* step in which the resolver returns to a task, that task stamps the      *)
(* result, sends the reply if there is a result and writes its log record  *)
(* and is done, and no other task, send or log record changes in it.       *)
C11_Step(t) ==
    LET ret == tasks'[t].rets[Len(tasks'[t].rets)]
        h == tasks[t].h
        tr == handlers[h].transport[1]
    IN /\ tasks'[t].pc = "done"
       /\ Len(log') = Len(log) + 1
       /\ SubSeq(log', 1, Len(log)) = log
       /\ log'[Len(log')].task = t
       /\ \A u \in TaskIds \ {t} : tasks'[u] = tasks[u]
       /\ queries' = queries
       /\ \A x \in 1..Len(transports) \ {tr} : transports'[x] = transports[x]
       /\ IF ret = None
          THEN transports' = transports /\ objs' = objs
          ELSE /\ Len(transports'[tr].out) = Len(transports[tr].out) + 1
               /\ SubSeq(transports'[tr].out, 1, Len(transports[tr].out))
                     = transports[tr].out
               /\ LET s == transports'[tr].out[Len(transports'[tr].out)]
                  IN /\ s.task = t
                     /\ s.data = pack(objs'[ret[1]])
                     /\ objs'[ret[1]].qid = parse(tasks[t].data).qid
C11_AtomicAfterResolver ==
    [][/\ \A t \in TaskIds :
            /\ tasks[t].pc \in {"spawned", "awaiting", "done", "failed"}
            /\ tasks[t].pc = "spawned" => QueriesOf(t) = {}
            /\ tasks[t].pc = "awaiting" =>
                  Cardinality(QueriesOf(t)) = Len(tasks[t].rets) + 1
            /\ tasks[t].pc = "done" =>
                  Cardinality(QueriesOf(t)) = Len(tasks[t].rets)
            /\ Len(tasks[t].rets) = Cardinality(LogsOf(t))
       /\ \A t \in TaskIds :
            tasks'[t].rets # tasks[t].rets => C11_Step(t)]_vars

(* A task was answered and logged while an earlier task was still waiting  *)
(* for the resolver.                                                       *)
C11_Witness ==
    \E t1, t2 \in TaskIds :
        /\ t1 < t2
        /\ tasks[t1].pc = "awaiting"
        /\ tasks[t2].pc = "done"
        /\ SendsOf(t2) # {} /\ LogsOf(t2) # {}


(* C12: a task the resolver returned a message to has sent its reply,      *)
(* whatever the other tasks are doing, and the replies on a transport are  *)
(* in the order in which the resolver calls completed (the order of the    *)
(* log records), not in the order of arrival.                              *)
C12_CompletionOrder ==
    /\ \A t \in TaskIds : PresentRets(t) # {} => SendsOf(t) # {}
    /\ \A tr \in 1..Len(transports) :
          \A i, j \in 1..Len(transports[tr].out) :
              i < j =>
                  \A k \in LogsOf(transports[tr].out[i].task),
                     l \in LogsOf(transports[tr].out[j].task) : k < l

(* On one transport the reply to a query that arrived later was sent       *)
(* before the reply to one that arrived earlier.                           *)
C12_Witness ==
    \E tr \in 1..Len(transports) :
        \E i, j \in 1..Len(transports[tr].out) :
            /\ i < j
            /\ transports[tr].out[i].task > transports[tr].out[j].task
            /\ Overtaken(transports[tr].out[j].task,
                         transports[tr].out[i].task)


(* C13: a step that adds a task adds exactly one, not yet started, for     *)
(* the handler, data and address of the callback, and changes nothing      *)
(* else: the resolver is not called and nothing is sent or logged in it.   *)
(* As long as the model's bound on tasks is not reached, every handler     *)
(* can receive any further datagram or chunk, whatever the state of the    *)
(* tasks spawned before.                                                   *)
C13_SpawnStep ==
    /\ Len(tasks') = Len(tasks) + 1
    /\ SubSeq(tasks', 1, Len(tasks)) = tasks
    /\ LET new == tasks'[Len(tasks')]
       IN /\ new.pc = "spawned" /\ new.rets = <<>> /\ new.msg = None
          /\ new.h \in 1..Len(handlers)
          /\ handlers[new.h].protocol = "tcp" =>
                Some(new.addr) = handlers[new.h].addr
    /\ UNCHANGED <<queries, log, transports, objs, handlers, bound>>
C13_CanReceive ==
    \A h \in 1..Len(handlers) :
        Len(tasks) < MaxTasks =>
            IF handlers[h].protocol = "udp"
            THEN \A data \in Requests, addr \in Peers :
                    ENABLED datagram_received(h, data, addr)
            ELSE \A data \in Requests : ENABLED data_received(h, data)
C13_OneTaskPerReceive ==
    /\ []C13_CanReceive
    /\ [][Len(tasks') # Len(tasks) => C13_SpawnStep]_vars

(* A datagram was received on a handler and its task spawned while an      *)
(* earlier query of that handler was still waiting for the resolver.       *)
C13_Witness ==
    \E t1, t2 \in TaskIds :
        /\ t1 < t2
        /\ tasks[t1].h = tasks[t2].h
        /\ handlers[tasks[t1].h].protocol = "udp"
        /\ tasks[t1].pc = "awaiting"
        /\ tasks[t2].pc = "spawned"


(* C14: a task whose data does not decode never calls the resolver, never  *)
(* sends and never logs; the step in which it fails changes nothing but    *)
(* the position of that task; and with such a task failed every handler    *)
(* can still receive (up to the model's bound on tasks), every task not    *)
(* yet started can start and every waiting task can be answered.           *)
C14_Quiet ==
    \A t \in TaskIds :
        ~Decodable(tasks[t].data) =>
            /\ QueriesOf(t) = {} /\ tasks[t].rets = <<>>
            /\ SendsOf(t) = {} /\ LogsOf(t) = {}
            /\ tasks[t].pc \in {"spawned", "failed"}
C14_KeepsRunning ==
    (\E t \in TaskIds : ~Decodable(tasks[t].data) /\ tasks[t].pc = "failed")
    => /\ \A tr \in 1..Len(transports) : ~transports[tr].closed
       /\ \A u \in TaskIds :
             /\ tasks[u].pc = "spawned" => ENABLED HandleStart(u)
             /\ tasks[u].pc = "awaiting" =>
                   /\ ENABLED QueryReturnsNone(u)
                   /\ \A rc \in Rcodes : ENABLED QueryReturnsNew(u, rc)
       /\ Len(tasks) < MaxTasks =>
             \A h \in 1..Len(handlers), data \in Requests :
                 IF handlers[h].protocol = "udp"
                 THEN \A addr \in Peers :
                         ENABLED datagram_received(h, data, addr)
                 ELSE ENABLED data_received(h, data)
C14_DecodeFailure ==
    /\ [](C14_Quiet /\ C14_KeepsRunning)
    /\ [][\A t \in TaskIds :
            (~Decodable(tasks[t].data) /\ tasks'[t] # tasks[t]) =>
                /\ tasks' = [tasks EXCEPT ![t].pc = "failed"]
                /\ UNCHANGED <<spc, loc, bootLog, bound, transports,
                               handlers, objs, queries, log>>]_vars

(* A task failed on malformed data, and a query received after it on the   *)
(* same handler was answered and logged.                                   *)
C14_Witness ==
    \E t1, t2 \in TaskIds :
        /\ t1 < t2
        /\ tasks[t1].h = tasks[t2].h
        /\ ~Decodable(tasks[t1].data) /\ tasks[t1].pc = "failed"
        /\ tasks[t2].pc = "done"
        /\ SendsOf(t2) # {} /\ LogsOf(t2) # {}


(* C15: no step removes a task or changes a task that has ended, and,      *)
(* when every resolver call completes, every spawned task ends: done       *)
(* without a trace for a message without questions, done with one reply    *)
(* and one log record, done with the -1/0 log record alone, or failed      *)
(* (on the decode or on the resolver call) without reply or log record.    *)
C15_Outcome(t) ==
    \/ /\ tasks[t].pc = "done"
       /\ tasks[t].msg[1].qd = <<>>
       /\ SendsOf(t) = {} /\ LogsOf(t) = {}
    \/ /\ tasks[t].pc = "done"
       /\ PresentRets(t) # {}
       /\ Cardinality(SendsOf(t)) = 1 /\ Cardinality(LogsOf(t)) = 1
    \/ /\ tasks[t].pc = "done"
       /\ tasks[t].rets = <<None>>
       /\ SendsOf(t) = {}
       /\ \E i \in LogsOf(t) : log[i].res_code = -1 /\ log[i].len_data = 0
    \/ /\ tasks[t].pc = "failed"
       /\ ~Decodable(tasks[t].data) \/ QueriesOf(t) # {}
       /\ SendsOf(t) = {} /\ LogsOf(t) = {}
C15_RunsToCompletion ==
    /\ [][\A t \in TaskIds :
            /\ t \in 1..Len(tasks')
            /\ tasks[t].pc \in {"done", "failed"} => tasks'[t] = tasks[t]]_vars
    /\ \A t \in 1..MaxTasks :
          (t \in TaskIds) ~> (t \in TaskIds /\ C15_Outcome(t))

(* Both kinds of ending are there: one task is done with its reply and     *)
(* log record, another has failed on the resolver's exception.             *)
C15_Witness ==
    \E t1, t2 \in TaskIds :
        /\ tasks[t1].pc = "done" /\ PresentRets(t1) # {}
        /\ C15_Outcome(t1)
        /\ tasks[t2].pc = "failed" /\ QueriesOf(t2) # {}
        /\ C15_Outcome(t2)


(* C16: every handler holds a transport, the one the event loop made for   *)
(* it, and no two handlers hold the same one; every reply is on the        *)
(* transport of the handler whose callback spawned the task; and all       *)
(* handlers hold the same resolver.                                        *)
C16_TransportOwnedByOneHandler ==
    /\ \A h \in 1..Len(handlers) :
          /\ handlers[h].transport # None
          /\ handlers[h].transport[1] \in 1..Len(transports)
          /\ transports[handlers[h].transport[1]].protocol = h
    /\ \A h1, h2 \in 1..Len(handlers) :
          /\ h1 # h2 => handlers[h1].transport # handlers[h2].transport
          /\ handlers[h1].resolver = handlers[h2].resolver
    /\ \A tr \in 1..Len(transports) :
          Cardinality({h \in 1..Len(handlers) :
                          handlers[h].transport = Some(tr)}) = 1
    /\ \A s \in AllSends :
          /\ transports[s[1]].protocol = tasks[SendAt(s).task].h
          /\ handlers[tasks[SendAt(s).task].h].transport = Some(s[1])

(* Two UDP endpoints and a TCP connection exist, and replies went out on   *)
(* two of their transports, each for a request of its own handler.         *)
C16_Witness ==
    /\ Len(handlers) >= 3
    /\ \E s1, s2 \in AllSends :
          /\ s1[1] # s2[1]
          /\ transports[s1[1]].kind # transports[s2[1]].kind
          /\ tasks[SendAt(s1).task].h # tasks[SendAt(s2).task].h


(* C17: before start_server is called nothing is configured, bound or      *)
(* handled; from the call on, the calls made on the cache and the          *)
(* resolver are, once each and in this order, the cache's construction,    *)
(* add_root_servers, the resolver's construction, parse_file if a hosts    *)
(* file was given and set_proxies if a non-empty proxy list was given,     *)
(* and that list of calls never changes again.  So it is complete in       *)
(* every state with a listener, a handler, a task or a resolver call.      *)
C17_Calls ==
    <<"DNSMemCache", "add_root_servers", "ProxyResolver">>
    \o (IF loc.hosts = None THEN <<>> ELSE <<"parse_file">>)
    \o (IF loc.proxies = None \/ loc.proxies = Some(<<>>)
        THEN <<>> ELSE <<"set_proxies">>)
C17_BootstrapFirst ==
    /\ []((spc = "idle") =>
            /\ bootLog = <<>> /\ bound = <<>> /\ handlers = <<>>
            /\ transports = <<>> /\ tasks = <<>> /\ queries = <<>>)
    /\ []((spc # "idle") => bootLog = C17_Calls)
    /\ [][spc # "idle" => bootLog' = bootLog]_vars

(* start_server has returned after merging a hosts file and installing     *)
(* proxies, and a query has been answered.                                 *)
C17_Witness ==
    /\ spc = "returned"
    /\ bootLog = <<"DNSMemCache", "add_root_servers", "ProxyResolver",
                   "parse_file", "set_proxies">>
    /\ \E t \in TaskIds : SendsOf(t) # {}


(* C18: the result is stamped in place: a message of the resolver carries  *)
(* the id of the request of the task it was returned to last; and every    *)
(* reply of every task it was returned to carries the id of that task's    *)
(* own request and is otherwise the message as the resolver built it.      *)
C18_Users(o) ==
    {t \in TaskIds : \E i \in PresentRets(t) : tasks[t].rets[i] = Some(o)}
C18_SharedResultOwnId ==
    \A o \in 1..Len(objs) :
        /\ C18_Users(o) # {}
        /\ \A t \in C18_Users(o) :
              /\ SendsOf(t) # {}
              /\ \A s \in SendsOf(t) :
                    SendAt(s).data =
                        pack([objs[o] EXCEPT !.qid = parse(tasks[t].data).qid])
              /\ (\A u \in C18_Users(o) :
                      \A k \in LogsOf(u), l \in LogsOf(t) : k <= l)
                 => objs[o].qid = parse(tasks[t].data).qid

(* One message was returned to two queries with different ids that were    *)
(* in flight together.                                                     *)
C18_Witness ==
    \E o \in 1..Len(objs) :
        \E t1, t2 \in C18_Users(o) :
            /\ Overtaken(t1, t2)
            /\ parse(tasks[t1].data).qid # parse(tasks[t2].data).qid


(* C19: a task that failed on its resolver call has made that one call     *)
(* and no other, got no result, sent nothing and logged nothing; the step  *)
(* in which it fails changes nothing but the position of that task; and    *)
(* with such a task failed every handler can still receive (up to the      *)
(* model's bound on tasks) and every other task can start or be answered.  *)
C19_Raised(t) ==
    tasks[t].pc = "failed" /\ Decodable(tasks[t].data)
C19_Quiet ==
    \A t \in TaskIds :
        C19_Raised(t) =>
            /\ Cardinality(QueriesOf(t)) = 1
            /\ tasks[t].rets = <<>>
            /\ SendsOf(t) = {} /\ LogsOf(t) = {}
C19_OthersUnaffected ==
    (\E t \in TaskIds : C19_Raised(t))
    => /\ \A u \in TaskIds :
             /\ tasks[u].pc = "spawned" => ENABLED HandleStart(u)
             /\ tasks[u].pc = "awaiting" =>
                   /\ ENABLED QueryReturnsNone(u)
                   /\ \A rc \in Rcodes : ENABLED QueryReturnsNew(u, rc)
                   /\ ENABLED QueryRaises(u)
       /\ Len(tasks) < MaxTasks =>
             \A h \in 1..Len(handlers), data \in Requests :
                 IF handlers[h].protocol = "udp"
                 THEN \A addr \in Peers :
                         ENABLED datagram_received(h, data, addr)
                 ELSE ENABLED data_received(h, data)
C19_ResolverRaises ==
    /\ [](C19_Quiet /\ C19_OthersUnaffected)
    /\ [][\A t \in TaskIds :
            (tasks[t].pc = "awaiting" /\ tasks'[t].pc = "failed") =>
                /\ tasks' = [tasks EXCEPT ![t].pc = "failed"]
                /\ UNCHANGED <<spc, loc, bootLog, bound, transports,
                               handlers, objs, queries, log>>]_vars

(* The resolver raised for one query, and a query that called the          *)
(* resolver after it is done with its reply and its log record.            *)
C19_Witness ==
    \E t1, t2 \in TaskIds :
        /\ C19_Raised(t1)
        /\ QueriesOf(t1) # {}
        /\ \E i \in QueriesOf(t1), j \in QueriesOf(t2) : i < j
        /\ tasks[t2].pc = "done"
        /\ Cardinality(SendsOf(t2)) = 1 /\ Cardinality(LogsOf(t2)) = 1


(* C20: the listeners are started one at a time: the TCP server before     *)
(* any UDP endpoint, the UDP endpoints in the order of the host list, and  *)
(* while start_server waits for an endpoint exactly the earlier ones are   *)
(* bound.  No step closes a listener or a transport.  The step in which    *)
(* start_server raises returns nothing and leaves every listener,          *)
(* transport and handler as it was, and afterwards the listeners started   *)
(* go on serving: connections are accepted and data is received.           *)
C20_Order ==
    /\ \A i, j \in 1..Len(bound) :
          i < j => ~(bound[i].kind = "udp" /\ bound[j].kind = "tcp")
    /\ \A i \in 1..Len(UdpBound) :
          /\ i <= Len(HostList(loc.host))
          /\ UdpBound[i].local_addr = <<HostList(loc.host)[i], loc.port>>
    /\ spc = "create_server" => bound = <<>>
    /\ spc = "create_endpoint" =>
          /\ Len(TcpBound) = (IF loc.tcp_protocol THEN 1 ELSE 0)
          /\ Len(UdpBound) = loc.i - 1
          /\ Len(UdpBound) < Len(HostList(loc.host))
C20_AfterRaise ==
    spc = "raised" =>
        /\ loc.ret = None
        /\ \A tr \in 1..Len(transports) : ~transports[tr].closed
        /\ (TcpBound # <<>> /\ TcpConns = {}) =>
              \A peer \in Peers : ENABLED Accept(peer)
        /\ Len(tasks) < MaxTasks =>
              \A h \in 1..Len(handlers), data \in Requests :
                  IF handlers[h].protocol = "udp"
                  THEN \A addr \in Peers :
                          ENABLED datagram_received(h, data, addr)
                  ELSE ENABLED data_received(h, data)
C20_SequentialListeners ==
    /\ [](C20_Order /\ C20_AfterRaise)
    /\ [][/\ Len(bound') >= Len(bound)
          /\ SubSeq(bound', 1, Len(bound)) = bound
          /\ Len(bound') <= Len(bound) + 1
          /\ \A tr \in 1..Len(transports) :
                /\ tr \in 1..Len(transports')
                /\ transports'[tr].closed = transports[tr].closed
          /\ (spc # "raised" /\ spc' = "raised") =>
                /\ loc'.ret = None
                /\ UNCHANGED <<bound, transports, handlers, tasks>>]_vars

(* A query has been answered on the first UDP endpoint while start_server  *)
(* still waits for the second one, the TCP server being up.                *)
C20_Witness ==
    /\ spc = "create_endpoint"
    /\ loc.i = 2
    /\ TcpBound # <<>>
    /\ \E s \in AllSends : transports[s[1]].kind = "udp"

====
